---- MODULE Spec2Model ----
(***************************************************************************)
(* parse-ns.py: reads Netscaler configuration files line by line into five *)
(* dictionaries, then writes one LB and one GSLB csv report by walking the *)
(* dictionaries from every server IP.                                      *)
(*                                                                         *)
(* A Python string is modelled as the sequence of its characters (each a   *)
(* one-character string), so that lower(), startswith(), `in`, split(),    *)
(* partition() and strip() are computed as Python computes them.           *)
(***************************************************************************)
EXTENDS Integers, Sequences, FiniteSets, TLC

\* ---------------------------------------------------------------- bounds

\* configuration files given on the command line: 0..MaxFiles
MaxFiles == 2

\* lines read in one run, over all files
MaxLines == 4

\* ------------------------------------------------------ str primitives

UpperCase ==
    <<"A","B","C","D","E","F","G","H","I","J","K","L","M","N","O","P","Q","R",
      "S","T","U","V","W","X","Y","Z">>

LowerCase ==
    <<"a","b","c","d","e","f","g","h","i","j","k","l","m","n","o","p","q","r",
      "s","t","u","v","w","x","y","z">>

\* the characters str.split() with no argument splits on
Whitespace == {" ", "\t", "\n", "\r", "\f"}

lower_char(c) ==
    IF \E i \in 1..Len(UpperCase) : UpperCase[i] = c
    THEN LowerCase[CHOOSE i \in 1..Len(UpperCase) : UpperCase[i] = c]
    ELSE c

RECURSIVE lower(_)
\* str.lower()
lower(s) == IF s = <<>> THEN <<>> ELSE <<lower_char(Head(s))>> \o lower(Tail(s))

\* str.startswith(p)
startswith(s, p) == Len(s) >= Len(p) /\ SubSeq(s, 1, Len(p)) = p

\* str.find(sub), 1-based; 0 when sub does not occur
find(s, sub) ==
    LET hits == {i \in 1..(Len(s) - Len(sub) + 1) :
                    SubSeq(s, i, i + Len(sub) - 1) = sub}
    IN IF hits = {} THEN 0 ELSE CHOOSE i \in hits : \A j \in hits : i <= j

\* sub in s
contains(s, sub) == find(s, sub) # 0

RECURSIVE split_from(_, _, _, _)
split_from(s, i, cur, acc) ==
    IF i > Len(s)
    THEN IF cur = <<>> THEN acc ELSE Append(acc, cur)
    ELSE IF s[i] \in Whitespace
         THEN split_from(s, i + 1, <<>>,
                         IF cur = <<>> THEN acc ELSE Append(acc, cur))
         ELSE split_from(s, i + 1, Append(cur, s[i]), acc)

\* str.split(): the whitespace-delimited tokens
split(s) == split_from(s, 1, <<>>, <<>>)

\* str.partition(sep)[2]: what follows the first sep, '' when there is none
partition2(s, sep) ==
    LET i == find(s, sep)
    IN IF i = 0 THEN <<>> ELSE SubSeq(s, i + Len(sep), Len(s))

RECURSIVE lstrip(_, _)
lstrip(s, chars) ==
    IF s # <<>> /\ Head(s) \in chars THEN lstrip(Tail(s), chars) ELSE s

RECURSIVE rstrip(_, _)
rstrip(s, chars) ==
    IF s # <<>> /\ s[Len(s)] \in chars
    THEN rstrip(SubSeq(s, 1, Len(s) - 1), chars) ELSE s

\* str.strip(chars)
strip(s, chars) == rstrip(lstrip(s, chars), chars)

\* the argument of strip('"\n')
QuoteNewline == {"\"", "\n"}

\* ------------------------------------------------- literals of the code

\* 'add server'
p_add_server ==
    <<"a","d","d"," ","s","e","r","v","e","r">>

\* 'bind servicegroup'
p_bind_servicegroup ==
    <<"b","i","n","d"," ","s","e","r","v","i","c","e","g","r","o","u","p">>

\* 'bind lb vserver'
p_bind_lb_vserver ==
    <<"b","i","n","d"," ","l","b"," ","v","s","e","r","v","e","r">>

\* 'add lb vserver'
p_add_lb_vserver ==
    <<"a","d","d"," ","l","b"," ","v","s","e","r","v","e","r">>

\* 'add gslb service'
p_add_gslb_service ==
    <<"a","d","d"," ","g","s","l","b"," ","s","e","r","v","i","c","e">>

\* 'bind gslb vserver'
p_bind_gslb_vserver ==
    <<"b","i","n","d"," ","g","s","l","b"," ","v","s","e","r","v","e","r">>

\* '-comment '
s_comment ==
    <<"-","c","o","m","m","e","n","t"," ">>

\* '-CustomServerID '
s_CustomServerID ==
    <<"-","C","u","s","t","o","m","S","e","r","v","e","r","I","D"," ">>

\* '-monitorName'
s_monitorName ==
    <<"-","m","o","n","i","t","o","r","N","a","m","e">>

\* '-serviceName'
s_serviceName ==
    <<"-","s","e","r","v","i","c","e","N","a","m","e">>

\* '-domainName'
s_domainName ==
    <<"-","d","o","m","a","i","n","N","a","m","e">>

\* 'LB'
s_LB ==
    <<"L","B">>

\* the column names of the two header rows

\* 'VIP'
h_VIP ==
    <<"V","I","P">>

\* 'serviceType'
h_serviceType ==
    <<"s","e","r","v","i","c","e","T","y","p","e">>

\* 'port'
h_port ==
    <<"p","o","r","t">>

\* 'VIPcomment'
h_VIPcomment ==
    <<"V","I","P","c","o","m","m","e","n","t">>

\* 'vServer'
h_vServer ==
    <<"v","S","e","r","v","e","r">>

\* 'serviceGroup'
h_serviceGroup ==
    <<"s","e","r","v","i","c","e","G","r","o","u","p">>

\* 'CustomServerID'
h_CustomServerID ==
    <<"C","u","s","t","o","m","S","e","r","v","e","r","I","D">>

\* 'srvName'
h_srvName ==
    <<"s","r","v","N","a","m","e">>

\* 'srvComment'
h_srvComment ==
    <<"s","r","v","C","o","m","m","e","n","t">>

\* 'IP'
h_IP ==
    <<"I","P">>

\* 'domain'
h_domain ==
    <<"d","o","m","a","i","n">>

\* 'gslbService'
h_gslbService ==
    <<"g","s","l","b","S","e","r","v","i","c","e">>

\* 'srvcComment'
h_srvcComment ==
    <<"s","r","v","c","C","o","m","m","e","n","t">>

\* ----------------------------------------------------------- input lines
\* The lines a configuration file may hold: the directives of the two
\* chains, noise the classifier must skip, and directives cut short.

\* the names, addresses and comments the input lines below use

\* 'S1'
S1 ==
    <<"S","1">>

\* 'S2'
S2 ==
    <<"S","2">>

\* '10.0.0.1'
IP1 ==
    <<"1","0",".","0",".","0",".","1">>

\* '10.0.0.2'
IP2 ==
    <<"1","0",".","0",".","0",".","2">>

\* 'SG1'
SG1 ==
    <<"S","G","1">>

\* 'GS1'
GS1 ==
    <<"G","S","1">>

\* 'VS1'
VS1 ==
    <<"V","S","1">>

\* 'VS2'
VS2 ==
    <<"V","S","2">>

\* 'a.com'
DomA ==
    <<"a",".","c","o","m">>

\* 'b.org'
DomB ==
    <<"b",".","o","r","g">>

\* 'web'
c_web ==
    <<"w","e","b">>

\* 'c1'
c_c1 ==
    <<"c","1">>

\* 'v1'
c_v1 ==
    <<"v","1">>

\* 'g1'
c_g1 ==
    <<"g","1">>

\* 'HTTP'
t_HTTP ==
    <<"H","T","T","P">>

\* 'SSL'
t_SSL ==
    <<"S","S","L">>

\* '80'
port_80 ==
    <<"8","0">>

\* '443'
port_443 ==
    <<"4","4","3">>

\* '8080'
port_8080 ==
    <<"8","0","8","0">>

\* '192.0.2.10'
VIP1 ==
    <<"1","9","2",".","0",".","2",".","1","0">>

\* '192.0.2.11'
VIP1b ==
    <<"1","9","2",".","0",".","2",".","1","1">>

\* 'add server S1 10.0.0.1 -comment "web"\n'
ln_server1 ==
    <<"a","d","d"," ","s","e","r","v","e","r"," ","S","1"," ","1","0",".","0",
      ".","0",".","1"," ","-","c","o","m","m","e","n","t"," ","\"","w","e",
      "b","\"","\n">>

\* 'add server S2 10.0.0.2\n'
ln_server2 ==
    <<"a","d","d"," ","s","e","r","v","e","r"," ","S","2"," ","1","0",".","0",
      ".","0",".","2","\n">>

\* 'ADD SERVER S2 10.0.0.1\n'
ln_server1_again ==
    <<"A","D","D"," ","S","E","R","V","E","R"," ","S","2"," ","1","0",".","0",
      ".","0",".","1","\n">>

\* 'bind serviceGroup SG1 S1 80 -CustomServerID "c1"\n'
ln_bind_sg ==
    <<"b","i","n","d"," ","s","e","r","v","i","c","e","G","r","o","u","p"," ",
      "S","G","1"," ","S","1"," ","8","0"," ","-","C","u","s","t","o","m","S",
      "e","r","v","e","r","I","D"," ","\"","c","1","\"","\n">>

\* 'bind serviceGroup SG1 -monitorName tcp\n'
ln_monitor ==
    <<"b","i","n","d"," ","s","e","r","v","i","c","e","G","r","o","u","p"," ",
      "S","G","1"," ","-","m","o","n","i","t","o","r","N","a","m","e"," ","t",
      "c","p","\n">>

\* 'bind lb vserver VS1 SG1\n'
ln_bind_lb ==
    <<"b","i","n","d"," ","l","b"," ","v","s","e","r","v","e","r"," ","V","S",
      "1"," ","S","G","1","\n">>

\* 'bind lb vserver VS2 SG1\n'
ln_bind_lb_again ==
    <<"b","i","n","d"," ","l","b"," ","v","s","e","r","v","e","r"," ","V","S",
      "2"," ","S","G","1","\n">>

\* 'add lb vserver VS1 HTTP 192.0.2.10 80 -comment "v1"\n'
ln_lb_vserver ==
    <<"a","d","d"," ","l","b"," ","v","s","e","r","v","e","r"," ","V","S","1",
      " ","H","T","T","P"," ","1","9","2",".","0",".","2",".","1","0"," ","8",
      "0"," ","-","c","o","m","m","e","n","t"," ","\"","v","1","\"","\n">>

\* 'add lb vserver VS1 SSL 192.0.2.11 443\n'
ln_lb_vserver_again ==
    <<"a","d","d"," ","l","b"," ","v","s","e","r","v","e","r"," ","V","S","1",
      " ","S","S","L"," ","1","9","2",".","0",".","2",".","1","1"," ","4","4",
      "3","\n">>

\* 'add gslb service GS1 S1 HTTP 8080 -comment "g1"\n'
ln_gslb_service ==
    <<"a","d","d"," ","g","s","l","b"," ","s","e","r","v","i","c","e"," ","G",
      "S","1"," ","S","1"," ","H","T","T","P"," ","8","0","8","0"," ","-","c",
      "o","m","m","e","n","t"," ","\"","g","1","\"","\n">>

\* 'bind gslb vserver VS2 -serviceName GS1\n'
ln_gslb_bind ==
    <<"b","i","n","d"," ","g","s","l","b"," ","v","s","e","r","v","e","r"," ",
      "V","S","2"," ","-","s","e","r","v","i","c","e","N","a","m","e"," ","G",
      "S","1","\n">>

\* 'bind gslb vserver VS2 -domainName a.com\n'
ln_domain_a ==
    <<"b","i","n","d"," ","g","s","l","b"," ","v","s","e","r","v","e","r"," ",
      "V","S","2"," ","-","d","o","m","a","i","n","N","a","m","e"," ","a",".",
      "c","o","m","\n">>

\* 'bind gslb vserver VS2 -domainName b.org -TTL 5\n'
ln_domain_b ==
    <<"b","i","n","d"," ","g","s","l","b"," ","v","s","e","r","v","e","r"," ",
      "V","S","2"," ","-","d","o","m","a","i","n","N","a","m","e"," ","b",".",
      "o","r","g"," ","-","T","T","L"," ","5","\n">>

\* 'bind gslb vserver VS1 -domainName a.com\n'
ln_domain_vs1 ==
    <<"b","i","n","d"," ","g","s","l","b"," ","v","s","e","r","v","e","r"," ",
      "V","S","1"," ","-","d","o","m","a","i","n","N","a","m","e"," ","a",".",
      "c","o","m","\n">>

\* '\n'
ln_blank ==
    <<"\n">>

\* '# add server S9 10.0.0.9\n'
ln_hash ==
    <<"#"," ","a","d","d"," ","s","e","r","v","e","r"," ","S","9"," ","1","0",
      ".","0",".","0",".","9","\n">>

\* 'add lb monitor m1 HTTP\n'
ln_monitor_add ==
    <<"a","d","d"," ","l","b"," ","m","o","n","i","t","o","r"," ","m","1"," ",
      "H","T","T","P","\n">>

\* 'add server S1\n'
ln_short_server ==
    <<"a","d","d"," ","s","e","r","v","e","r"," ","S","1","\n">>

\* 'bind serviceGroup SG1 S1\n'
ln_short_bind_sg ==
    <<"b","i","n","d"," ","s","e","r","v","i","c","e","G","r","o","u","p"," ",
      "S","G","1"," ","S","1","\n">>

\* 'bind lb vserver VS1\n'
ln_short_bind_lb ==
    <<"b","i","n","d"," ","l","b"," ","v","s","e","r","v","e","r"," ","V","S",
      "1","\n">>

\* 'add lb vserver VS1 HTTP\n'
ln_short_lb_vserver ==
    <<"a","d","d"," ","l","b"," ","v","s","e","r","v","e","r"," ","V","S","1",
      " ","H","T","T","P","\n">>

\* 'add gslb service GS1 S1\n'
ln_short_gslb_service ==
    <<"a","d","d"," ","g","s","l","b"," ","s","e","r","v","i","c","e"," ","G",
      "S","1"," ","S","1","\n">>

\* 'bind gslb vserver VS2 -domainName\n'
ln_short_domain ==
    <<"b","i","n","d"," ","g","s","l","b"," ","v","s","e","r","v","e","r"," ",
      "V","S","2"," ","-","d","o","m","a","i","n","N","a","m","e","\n">>

\* 'bind gslb vserver VS2\n'
ln_gslb_noflag ==
    <<"b","i","n","d"," ","g","s","l","b"," ","v","s","e","r","v","e","r"," ",
      "V","S","2","\n">>

Lines ==
    {ln_server1, ln_server2, ln_server1_again, ln_bind_sg, ln_monitor,
     ln_bind_lb, ln_bind_lb_again, ln_lb_vserver, ln_lb_vserver_again,
     ln_gslb_service, ln_gslb_bind, ln_domain_a, ln_domain_b, ln_domain_vs1,
     ln_blank, ln_hash, ln_monitor_add, ln_short_server, ln_short_bind_sg,
     ln_short_bind_lb, ln_short_lb_vserver, ln_short_gslb_service,
     ln_short_domain, ln_gslb_noflag}

\* every string expression the classifier and the parsers evaluate on a line
scan(l) ==
    [lower          |-> lower(l),
     split          |-> split(l),
     monitorName    |-> contains(l, s_monitorName),
     serviceName    |-> contains(l, s_serviceName),
     domainName     |-> contains(l, s_domainName),
     comment        |-> strip(partition2(l, s_comment), QuoteNewline),
     CustomServerID |-> strip(partition2(l, s_CustomServerID), QuoteNewline)]

\* scan, evaluated once for each line of Lines
scanned == [l \in Lines |-> scan(l)]

\* ------------------------------------------------------------ the state

VARIABLES
    pc,         \* where the script is
    confFiles,  \* how many of the files of confFiles are still to be opened
    nread,      \* lines read so far, over all files
    line,       \* the global `line` of the input loop
    called,     \* the parser readline() called for `line`, "" for none
    replaced,   \* the <<dictionary, key>> whose value reading `line` replaced
                \* by another, <<>> when it replaced none
    lastwrite,  \* confFiles at the last write to servers (.server) and at the
                \* last write to another dictionary (.link), -1 for none
    servers,    \* [srvName, srvComment]=servers[ip]
    srvs,       \* [serviceGroup/gslbService, 'LB'/serviceType, port, srvComment]=srvs[srvName]
    vServers,   \* vServer=vServers[serviceGroup/gslbService]
    VIPs,       \* [VIP, serviceType, port, VIPcomment]=VIPs[vServer]
    domains,    \* domain=domains[vserver]
    f_lb,       \* the rows written to the LB csv file
    f_gslb      \* the rows written to the GSLB csv file

dicts == <<servers, srvs, vServers, VIPs, domains>>

input == <<line, called, replaced, lastwrite>>

reports == <<f_lb, f_gslb>>

vars == <<pc, confFiles, nread, input, dicts, reports>>

\* -------------------------------------------------------- dictionaries

\* dict()
EmptyDict == [k \in {} |-> <<>>]

\* d[k]=v
setitem(d, k, v) == [x \in (DOMAIN d) \cup {k} |-> IF x = k THEN v ELSE d[x]]

\* the module's globals as the parsers see them; raised: an IndexError left
\* the parser
globals ==
    [servers |-> servers, srvs |-> srvs, vServers |-> vServers, VIPs |-> VIPs,
     domains |-> domains, raised |-> FALSE, called |-> ""]

\* the <<dictionary, key>> pairs of g whose value differs in h
overwritten(g, h) ==
    {<<"servers", k>> : k \in {x \in DOMAIN g.servers : h.servers[x] # g.servers[x]}}
    \cup {<<"srvs", k>> : k \in {x \in DOMAIN g.srvs : h.srvs[x] # g.srvs[x]}}
    \cup {<<"vServers", k>> : k \in {x \in DOMAIN g.vServers : h.vServers[x] # g.vServers[x]}}
    \cup {<<"VIPs", k>> : k \in {x \in DOMAIN g.VIPs : h.VIPs[x] # g.VIPs[x]}}

\* l.split()[k] with k >= len(l.split())
IndexError(g) == [g EXCEPT !.raised = TRUE]

\* ------------------------------------------------------------- parsers

\* add server [serverName] [IP] -comment ["some code or explanation"]
\* (the comment is cut from the global `line`, which is `l` at the one call)
server_parse(g, l) ==
    LET t == scanned[l].split IN
    IF Len(t) <= 3 THEN IndexError(g)
    ELSE LET srvName    == t[3]
             IP         == t[4]
             srvComment == scanned[l].comment
         IN [g EXCEPT !.servers = setitem(@, IP, <<srvName, srvComment>>)]

\* faulty variant of bind_servicegroup_parse: the -monitorName test is left out
bind_servicegroup_parse_nomonitor(g, l) ==
    LET t == scanned[l].split IN
    IF Len(t) <= 4 THEN IndexError(g)
    ELSE [g EXCEPT !.srvs =
             setitem(@, t[4], <<t[3], s_LB, t[5], scanned[l].CustomServerID>>)]

\* bind serviceGroup [serviceGroup] [serverName] [port] -CustomServerID ["some code"]
bind_servicegroup_parse(g, l) ==
    IF scanned[l].monitorName THEN g
    ELSE LET t == scanned[l].split IN
         IF Len(t) <= 4 THEN IndexError(g)
         ELSE LET serviceGroup == t[3]
                  srvName      == t[4]
                  port         == t[5]
                  srvComment   == scanned[l].CustomServerID
              IN [g EXCEPT !.srvs =
                     setitem(@, srvName, <<serviceGroup, s_LB, port, srvComment>>)]

\* faulty variant of bind_lb_parse: a group already bound keeps its vserver
bind_lb_parse_keepfirst(g, l) ==
    LET t == scanned[l].split IN
    IF Len(t) <= 4 THEN IndexError(g)
    ELSE IF t[5] \in DOMAIN g.vServers THEN g
    ELSE [g EXCEPT !.vServers = setitem(@, t[5], t[4])]

\* bind lb vserver [vserver] [serviceGroup]
bind_lb_parse(g, l) ==
    LET t == scanned[l].split IN
    IF Len(t) <= 4 THEN IndexError(g)
    ELSE LET vServer      == t[4]
             serviceGroup == t[5]
         IN [g EXCEPT !.vServers = setitem(@, serviceGroup, vServer)]

\* faulty variant of lb_vserver_parse: a line cut short is skipped
lb_vserver_parse_lenient(g, l) ==
    LET t == scanned[l].split IN
    IF Len(t) <= 6 THEN g
    ELSE [g EXCEPT !.VIPs =
             setitem(@, t[4], <<t[6], t[5], t[7], scanned[l].comment>>)]

\* add lb vserver [vserver] [serviceType] [VIP] [port] [-other parameters] -comment ["some code"]
lb_vserver_parse(g, l) ==
    LET t == scanned[l].split IN
    IF Len(t) <= 6 THEN IndexError(g)
    ELSE LET vServer     == t[4]
             serviceType == t[5]
             VIP         == t[6]
             port        == t[7]
             VIPcomment  == scanned[l].comment
         IN [g EXCEPT !.VIPs =
                setitem(@, vServer, <<VIP, serviceType, port, VIPcomment>>)]

\* add gslb service [gslbservice] [serverName] [serviceType] [port] [other parameters] -comment [".."]
gslb_parse(g, l) ==
    LET t == scanned[l].split IN
    IF Len(t) <= 6 THEN IndexError(g)
    ELSE LET gslbService == t[4]
             srvName     == t[5]
             serviceType == t[6]
             port        == t[7]
             srvComment  == scanned[l].comment
         IN [g EXCEPT !.srvs =
                setitem(@, srvName, <<gslbService, serviceType, port, srvComment>>)]

\* faulty variant of gslb_vserver_parse: a domain replaces the ones bound
gslb_vserver_parse_overwrite(g, l) ==
    LET t == scanned[l].split IN
    IF scanned[l].serviceName
    THEN IF Len(t) <= 5 THEN IndexError(g)
         ELSE [g EXCEPT !.vServers = setitem(@, t[6], t[4])]
    ELSE IF scanned[l].domainName
    THEN IF Len(t) <= 5 THEN IndexError(g)
         ELSE [g EXCEPT !.domains = setitem(@, t[4], t[6])]
    ELSE g

\* bind gslb vserver [vserver] -serviceName [gslbservice]
\* bind gslb vserver [vserver] -domainName [domainName] [other parameters]
gslb_vserver_parse(g, l) ==
    LET t == scanned[l].split IN
    IF scanned[l].serviceName
    THEN IF Len(t) <= 5 THEN IndexError(g)
         ELSE LET vServer     == t[4]
                  gslbService == t[6]
              IN [g EXCEPT !.vServers = setitem(@, gslbService, vServer)]
    ELSE IF scanned[l].domainName
    THEN IF Len(t) <= 5 THEN IndexError(g)
         ELSE LET vserver == t[4]
                  domain  == t[6]
              IN [g EXCEPT !.domains =
                     IF vserver \in DOMAIN @
                     THEN setitem(@, vserver, @[vserver] \o <<"\n">> \o domain)
                     ELSE setitem(@, vserver, domain)]
    ELSE g

\* faulty variant of readline: 'add lb' stands for 'add lb vserver'
readline_shortprefix(g, l) ==
    IF startswith(scanned[l].lower, p_add_server)
    THEN [server_parse(g, l) EXCEPT !.called = "server_parse"]
    ELSE IF startswith(scanned[l].lower, p_bind_servicegroup)
    THEN [bind_servicegroup_parse(g, l) EXCEPT !.called = "bind_servicegroup_parse"]
    ELSE IF startswith(scanned[l].lower, p_bind_lb_vserver)
    THEN [bind_lb_parse(g, l) EXCEPT !.called = "bind_lb_parse"]
    ELSE IF startswith(scanned[l].lower, SubSeq(p_add_lb_vserver, 1, 6))
    THEN [lb_vserver_parse(g, l) EXCEPT !.called = "lb_vserver_parse"]
    ELSE IF startswith(scanned[l].lower, p_add_gslb_service)
    THEN [gslb_parse(g, l) EXCEPT !.called = "gslb_parse"]
    ELSE IF startswith(scanned[l].lower, p_bind_gslb_vserver)
    THEN [gslb_vserver_parse(g, l) EXCEPT !.called = "gslb_vserver_parse"]
    ELSE g

\* readline(line): read line and parse accordingly
readline(g, l) ==
    IF startswith(scanned[l].lower, p_add_server)
    THEN [server_parse(g, l) EXCEPT !.called = "server_parse"]
    ELSE IF startswith(scanned[l].lower, p_bind_servicegroup)
    THEN [bind_servicegroup_parse(g, l) EXCEPT !.called = "bind_servicegroup_parse"]
    ELSE IF startswith(scanned[l].lower, p_bind_lb_vserver)
    THEN [bind_lb_parse(g, l) EXCEPT !.called = "bind_lb_parse"]
    ELSE IF startswith(scanned[l].lower, p_add_lb_vserver)
    THEN [lb_vserver_parse(g, l) EXCEPT !.called = "lb_vserver_parse"]
    ELSE IF startswith(scanned[l].lower, p_add_gslb_service)
    THEN [gslb_parse(g, l) EXCEPT !.called = "gslb_parse"]
    ELSE IF startswith(scanned[l].lower, p_bind_gslb_vserver)
    THEN [gslb_vserver_parse(g, l) EXCEPT !.called = "gslb_vserver_parse"]
    ELSE g

\* ------------------------------------------------------------- reports

\* the header row of the LB report
LBHeader ==
    <<h_VIP, h_serviceType, h_port, h_VIPcomment, h_vServer, h_serviceGroup,
      h_port, h_CustomServerID, h_srvName, h_srvComment, h_IP>>

\* the header row of the GSLB report
GSLBHeader ==
    <<h_domain, h_vServer, h_gslbService, h_serviceType, h_port,
      h_srvcComment, h_srvComment, h_srvName, h_IP>>

\* faulty variant of lb_rows: the last column holds the server's name
lb_rows_lastcolumn(IP) ==
    LET srvName == servers[IP][1] IN
    IF srvName \notin DOMAIN srvs THEN <<>>
    ELSE IF srvs[srvName][1] \notin DOMAIN vServers THEN <<>>
    ELSE IF vServers[srvs[srvName][1]] \notin DOMAIN VIPs THEN <<>>
    ELSE LET vServer == vServers[srvs[srvName][1]]
         IN << <<VIPs[vServer][1], VIPs[vServer][2], VIPs[vServer][3],
                 VIPs[vServer][4], vServer, srvs[srvName][1], srvs[srvName][3],
                 srvs[srvName][4], srvName, servers[IP][2], srvName>> >>

\* faulty variant of lb_rows: a vserver with no VIP gets a row of blanks
lb_rows_partial(IP) ==
    LET srvName == servers[IP][1] IN
    IF srvName \notin DOMAIN srvs THEN <<>>
    ELSE IF srvs[srvName][1] \notin DOMAIN vServers THEN <<>>
    ELSE LET vServer == vServers[srvs[srvName][1]]
             vip == IF vServer \in DOMAIN VIPs THEN VIPs[vServer]
                    ELSE << <<>>, <<>>, <<>>, <<>> >>
         IN << <<vip[1], vip[2], vip[3], vip[4], vServer, srvs[srvName][1],
                 srvs[srvName][3], srvs[srvName][4], srvName, servers[IP][2],
                 IP>> >>

\* one pass of the LB loop body: the rows it writes for IP (none or one)
lb_rows(IP) ==
    LET srvName    == servers[IP][1]
        srvComment == servers[IP][2]
    IN IF srvName \notin DOMAIN srvs THEN <<>>
       ELSE LET serviceGroup   == srvs[srvName][1]
                port           == srvs[srvName][3]
                CustomServerID == srvs[srvName][4]
            IN IF serviceGroup \notin DOMAIN vServers THEN <<>>
               ELSE LET vServer == vServers[serviceGroup]
                    IN IF vServer \notin DOMAIN VIPs THEN <<>>
                       ELSE LET VIP         == VIPs[vServer][1]
                                serviceType == VIPs[vServer][2]
                                VIPport     == VIPs[vServer][3]
                                VIPcomment  == VIPs[vServer][4]
                            IN << <<VIP, serviceType, VIPport, VIPcomment,
                                    vServer, serviceGroup, port,
                                    CustomServerID, srvName, srvComment, IP>> >>

\* faulty variant of gslb_rows: the service's comment fills both comment columns
gslb_rows_samecomment(IP) ==
    LET srvName == servers[IP][1] IN
    IF srvName \notin DOMAIN srvs THEN <<>>
    ELSE IF srvs[srvName][1] \notin DOMAIN vServers THEN <<>>
    ELSE IF vServers[srvs[srvName][1]] \notin DOMAIN domains THEN <<>>
    ELSE LET vServer == vServers[srvs[srvName][1]]
         IN << <<domains[vServer], vServer, srvs[srvName][1], srvs[srvName][2],
                 srvs[srvName][3], srvs[srvName][4], srvs[srvName][4], srvName,
                 IP>> >>

\* one pass of the GSLB loop body: the rows it writes for IP (none or one)
gslb_rows(IP) ==
    LET srvName    == servers[IP][1]
        srvComment == servers[IP][2]
    IN IF srvName \notin DOMAIN srvs THEN <<>>
       ELSE LET gslbService == srvs[srvName][1]
                serviceType == srvs[srvName][2]
                port        == srvs[srvName][3]
                srvcComment == srvs[srvName][4]
            IN IF gslbService \notin DOMAIN vServers THEN <<>>
               ELSE LET vServer == vServers[gslbService]
                    IN IF vServer \notin DOMAIN domains THEN <<>>
                       ELSE LET domain == domains[vServer]
                            IN << <<domain, vServer, gslbService, serviceType,
                                    port, srvcComment, srvComment, srvName,
                                    IP>> >>

\* -------------------------------------------------------------- actions

Init ==
    /\ pc = "args"
    /\ confFiles \in 0..MaxFiles
    /\ nread = 0
    /\ line = <<>>
    /\ called = ""
    /\ replaced = <<>>
    /\ lastwrite = [server |-> -1, link |-> -1]
    /\ servers = EmptyDict
    /\ srvs = EmptyDict
    /\ vServers = EmptyDict
    /\ VIPs = EmptyDict
    /\ domains = EmptyDict
    /\ f_lb = <<>>
    /\ f_gslb = <<>>

\* if (confFiles==[]): ... exit(1); else the input loop opens the first file
CheckArgs ==
    /\ pc = "args"
    /\ IF confFiles = 0
       THEN pc' = "exit1" /\ confFiles' = confFiles
       ELSE pc' = "lines" /\ confFiles' = confFiles - 1
    /\ UNCHANGED <<nread, input, dicts, reports>>

\* for line in f: readline(line)
ReadLine ==
    /\ pc = "lines"
    /\ nread < MaxLines
    /\ nread' = nread + 1
    /\ \E l \in Lines : \E g \in {readline(globals, l)} :  \* g: the globals after readline(l)
          /\ line' = l
          /\ called' = g.called
          /\ replaced' = IF overwritten(globals, g) = {} THEN <<>>
                          ELSE CHOOSE p \in overwritten(globals, g) : TRUE
          /\ lastwrite' =
                IF g.servers # servers
                THEN [lastwrite EXCEPT !.server = confFiles]
                ELSE IF <<g.srvs, g.vServers, g.VIPs, g.domains>>
                          # <<srvs, vServers, VIPs, domains>>
                THEN [lastwrite EXCEPT !.link = confFiles]
                ELSE lastwrite
          /\ pc' = IF g.raised THEN "traceback" ELSE "lines"
          /\ servers' = g.servers
          /\ srvs' = g.srvs
          /\ vServers' = g.vServers
          /\ VIPs' = g.VIPs
          /\ domains' = g.domains
    /\ UNCHANGED <<confFiles, reports>>

\* faulty variant of EndOfFile: the reports follow the first file
EndOfFile_firstonly ==
    /\ pc = "lines"
    /\ pc' = "lb"
    /\ UNCHANGED <<confFiles, nread, input, dicts, reports>>

\* the file is exhausted: the input loop opens the next confFile, or ends
EndOfFile ==
    /\ pc = "lines"
    /\ IF confFiles > 0
       THEN pc' = "lines" /\ confFiles' = confFiles - 1
       ELSE pc' = "lb" /\ confFiles' = confFiles
    /\ UNCHANGED <<nread, input, dicts, reports>>

\* servers.keys(): the keys in any order
keys(d) ==
    {o \in [1..Cardinality(DOMAIN d) -> DOMAIN d] :
        \A i, j \in DOMAIN o : i # j => o[i] # o[j]}

RECURSIVE lb_loop(_, _)
\* for IP in servers.keys(): ... over the keys o[i..]
lb_loop(o, i) ==
    IF i > Len(o) THEN <<>> ELSE lb_rows(o[i]) \o lb_loop(o, i + 1)

RECURSIVE gslb_loop(_, _)
\* for IP in servers.keys(): ... over the keys o[i..]
gslb_loop(o, i) ==
    IF i > Len(o) THEN <<>> ELSE gslb_rows(o[i]) \o gslb_loop(o, i + 1)

\* with open(f_lb,'w') as f: the header row, then the LB loop
WriteLB ==
    /\ pc = "lb"
    /\ \E o \in keys(servers) : f_lb' = <<LBHeader>> \o lb_loop(o, 1)
    /\ pc' = "gslb"
    /\ UNCHANGED <<confFiles, nread, input, dicts, f_gslb>>

\* with open(f_gslb,'w') as f: the header row, then the GSLB loop;
\* print "...and done! Enjoy!"
WriteGSLB ==
    /\ pc = "gslb"
    /\ \E o \in keys(servers) : f_gslb' = <<GSLBHeader>> \o gslb_loop(o, 1)
    /\ pc' = "done"
    /\ UNCHANGED <<confFiles, nread, input, dicts, f_lb>>

Next ==
    \/ CheckArgs
    \/ ReadLine
    \/ EndOfFile
    \/ WriteLB
    \/ WriteGSLB

Spec == Init /\ [][Next]_vars

\* ----------------------------------------------------------- properties

\* the LB chain of IP is complete in the dictionaries
LBChain(IP) ==
    /\ IP \in DOMAIN servers
    /\ servers[IP][1] \in DOMAIN srvs
    /\ srvs[servers[IP][1]][1] \in DOMAIN vServers
    /\ vServers[srvs[servers[IP][1]][1]] \in DOMAIN VIPs

\* the GSLB chain of IP is complete in the dictionaries
GSLBChain(IP) ==
    /\ IP \in DOMAIN servers
    /\ servers[IP][1] \in DOMAIN srvs
    /\ srvs[servers[IP][1]][1] \in DOMAIN vServers
    /\ vServers[srvs[servers[IP][1]][1]] \in DOMAIN domains

\* the rows of the LB report, below its header, that end in IP
LBRowsOf(IP) == {i \in 2..Len(f_lb) : f_lb[i][Len(f_lb[i])] = IP}

\* the rows of the GSLB report, below its header, that end in IP
GSLBRowsOf(IP) == {i \in 2..Len(f_gslb) : f_gslb[i][Len(f_gslb[i])] = IP}

\* the script has left the LB loop
LBWritten == pc \in {"gslb", "done"}

\* the step reads one line of input
ReadStep == pc = "lines" /\ nread' = nread + 1

\* C1: once the LB report is written, every server IP whose chain
\* servers -> srvs -> vServers -> VIPs is complete has exactly one row in
\* it, with the VIP of the resolved vserver first and its own IP last.
C1_OneRowPerResolvedServer ==
    LBWritten =>
        \A IP \in DOMAIN servers :
            LBChain(IP) =>
                /\ Cardinality(LBRowsOf(IP)) = 1
                /\ \A i \in LBRowsOf(IP) :
                      /\ f_lb[i][1] = VIPs[vServers[srvs[servers[IP][1]][1]]][1]
                      /\ f_lb[i][11] = IP

\* the end-to-end example: S1 behind SG1 behind VS1 at 192.0.2.10
C1_Witness ==
    /\ pc = "done"
    /\ f_lb = <<LBHeader,
                <<VIP1, t_HTTP, port_80, c_v1, VS1, SG1, port_80, c_c1, S1,
                  c_web, IP1>> >>

\* C2: no report ever holds a row whose chain lacks a link, and once the LB
\* report is written a server whose LB chain lacks any of its three links
\* has no row in it.
C2_NoRowForBrokenChain ==
    /\ \A i \in 2..Len(f_lb) :
          Len(f_lb[i]) = 11 /\ LBChain(f_lb[i][11])
    /\ \A i \in 2..Len(f_gslb) :
          Len(f_gslb[i]) = 9 /\ GSLBChain(f_gslb[i][9])
    /\ LBWritten =>
          \A IP \in DOMAIN servers : ~LBChain(IP) => LBRowsOf(IP) = {}

\* both reports written; S1 is bound to SG1 and SG1 to VS2, VS1 has a VIP
\* and VS2 has none
C2_Witness ==
    /\ pc = "done"
    /\ f_lb = <<LBHeader>>
    /\ IP1 \in DOMAIN servers /\ servers[IP1][1] = S1
    /\ S1 \in DOMAIN srvs /\ srvs[S1][1] = SG1
    /\ SG1 \in DOMAIN vServers /\ vServers[SG1] = VS2
    /\ DOMAIN VIPs = {VS1}

\* C8 as stated: every GSLB row holds the service binding's comment in both
\* of its comment columns.
C8_CommentTwice ==
    \A i \in 2..Len(f_gslb) :
        /\ f_gslb[i][6] = srvs[f_gslb[i][8]][4]
        /\ f_gslb[i][7] = srvs[f_gslb[i][8]][4]

\* C8, amended: once the GSLB report is written, a server whose chain
\* servers -> srvs -> vServers -> domains is complete has exactly one row,
\* (domain, vserver, service, serviceType, port, the service binding's
\* comment, the server's own comment, server name, IP), and a server whose
\* chain lacks a link has none.
C8_GSLBRow ==
    pc = "done" =>
        \A IP \in DOMAIN servers :
            IF GSLBChain(IP)
            THEN /\ Cardinality(GSLBRowsOf(IP)) = 1
                 /\ \A i \in GSLBRowsOf(IP) :
                       f_gslb[i] =
                          <<domains[vServers[srvs[servers[IP][1]][1]]],
                            vServers[srvs[servers[IP][1]][1]],
                            srvs[servers[IP][1]][1],
                            srvs[servers[IP][1]][2],
                            srvs[servers[IP][1]][3],
                            srvs[servers[IP][1]][4],
                            servers[IP][2],
                            servers[IP][1],
                            IP>>
            ELSE GSLBRowsOf(IP) = {}

\* the GSLB example: S1 (comment web) behind service GS1 (comment g1)
C8_Witness ==
    /\ pc = "done"
    /\ f_gslb = <<GSLBHeader,
                  <<DomA, VS2, GS1, t_HTTP, port_8080, c_g1, c_web, S1, IP1>> >>

\* C9 as stated: no LB row comes from an srvs entry that `add gslb service`
\* wrote (kind other than 'LB'), no GSLB row from one that
\* `bind serviceGroup` wrote (kind 'LB').
C9_NoCrossContamination ==
    /\ \A i \in 2..Len(f_lb) : srvs[f_lb[i][9]][2] = s_LB
    /\ \A i \in 2..Len(f_gslb) : srvs[f_gslb[i][8]][2] # s_LB

\* C3: the two phases never overlap. A report holds rows only once the last
\* file is exhausted, a step that writes a report leaves the dictionaries
\* and the input alone, and a step that reads a line finds and leaves both
\* reports empty; so at the end every server whose chain is complete in the
\* dictionaries has its row, wherever in the input its directives stood.
C3_ReadThenResolve ==
    /\ [](f_lb # <<>> \/ f_gslb # <<>> => pc \in {"gslb", "done"} /\ confFiles = 0)
    /\ [][f_lb' # f_lb \/ f_gslb' # f_gslb
             => UNCHANGED <<dicts, nread, line>> /\ pc \notin {"args", "lines"}]_vars
    /\ [][ReadStep => f_lb' = <<>> /\ f_gslb' = <<>>]_vars
    /\ [](pc = "done" =>
             \A IP \in DOMAIN servers :
                /\ LBChain(IP) => LBRowsOf(IP) # {}
                /\ GSLBChain(IP) => GSLBRowsOf(IP) # {})

\* the run is over and 10.0.0.1 has its LB row; its `add server` line came in
\* one file and the last directive of its chain in a file opened later
C3_Witness ==
    /\ pc = "done"
    /\ LBRowsOf(IP1) # {}
    /\ lastwrite.link >= 0
    /\ lastwrite.server > lastwrite.link

\* the tokens of the documented form of each directive
TokensOf ==
    [p \in {"server_parse", "bind_servicegroup_parse", "bind_lb_parse",
            "lb_vserver_parse", "gslb_parse", "gslb_vserver_parse"} |->
        CASE p = "server_parse"            -> 4
          [] p = "bind_servicegroup_parse" -> 5
          [] p = "bind_lb_parse"           -> 5
          [] p = "lb_vserver_parse"        -> 7
          [] p = "gslb_parse"              -> 7
          [] p = "gslb_vserver_parse"      -> 6]

\* the run died of an IndexError before any report was opened
Fatal == pc = "traceback" /\ f_lb = <<>> /\ f_gslb = <<>>

\* C4 as stated: a line of one of the six prefixes with fewer tokens than its
\* directive has ends the run at that line, with no report written.
C4_ShortLineIsFatal ==
    called # "" /\ Len(scanned[line].split) < TokensOf[called] => Fatal

\* the tokens the parser of l reads: none of a `bind serviceGroup` line that
\* holds -monitorName, none of a `bind gslb vserver` line that holds neither
\* -serviceName nor -domainName
TokensRead(p, l) ==
    IF p = "bind_servicegroup_parse" /\ scanned[l].monitorName THEN 0
    ELSE IF p = "gslb_vserver_parse"
            /\ ~scanned[l].serviceName /\ ~scanned[l].domainName THEN 0
    ELSE TokensOf[p]

\* C4, amended: a line of one of the six prefixes with fewer tokens than its
\* parser reads of it ends the run at that line, with no report written; the
\* two forms of which the parser reads no token are skipped instead.
C4_ShortLineOfReadFormIsFatal ==
    /\ called # "" /\ Len(scanned[line].split) < TokensRead(called, line)
          => Fatal
    /\ called # "" /\ TokensRead(called, line) = 0 => pc # "traceback"

\* a server is known, then `add lb vserver VS1 HTTP` ends the run
C4_Witness ==
    /\ pc = "traceback"
    /\ line = ln_short_lb_vserver
    /\ IP1 \in DOMAIN servers
    /\ f_lb = <<>> /\ f_gslb = <<>>

\* C5: reading a `bind serviceGroup` line that holds -monitorName leaves the
\* five dictionaries as they were, and the run goes on.
C5_MonitorLineWritesNothing ==
    [][ReadStep /\ startswith(scanned[line'].lower, p_bind_servicegroup)
          /\ scanned[line'].monitorName
          => UNCHANGED dicts /\ pc' = "lines"]_vars

\* the monitor line was read with S1 bound to SG1, and the binding stands
C5_Witness ==
    /\ line = ln_monitor
    /\ called = "bind_servicegroup_parse"
    /\ S1 \in DOMAIN srvs
    /\ srvs[S1] = <<SG1, s_LB, port_80, c_c1>>

\* `bind gslb vserver <vs> -domainName <d>`, up to the end of d
domain_line(vs, d) ==
    p_bind_gslb_vserver \o <<" ">> \o vs \o <<" ">> \o s_domainName
    \o <<" ">> \o d

\* l is a domain-name line for vs and d
IsDomainLine(l, vs, d) ==
    /\ startswith(l, domain_line(vs, d))
    /\ Len(l) > Len(domain_line(vs, d))
    /\ l[Len(domain_line(vs, d)) + 1] \in Whitespace

\* C6: a domain-name line for vs appends its domain to domains[vs] after a
\* newline, or starts the entry, and leaves every other vserver's entry as it
\* was; no line of the input removes an entry or anything from its front.
C6_DomainsAccumulate ==
    [][ReadStep =>
          /\ \A vs \in DOMAIN domains :
                vs \in DOMAIN domains' /\ startswith(domains'[vs], domains[vs])
          /\ \A vs \in {VS1, VS2}, d \in {DomA, DomB} :
                IsDomainLine(line', vs, d) =>
                   /\ vs \in DOMAIN domains'
                   /\ domains'[vs] = IF vs \in DOMAIN domains
                                      THEN domains[vs] \o <<"\n">> \o d
                                      ELSE d
                   /\ \A o \in DOMAIN domains' \ {vs} :
                         o \in DOMAIN domains /\ domains'[o] = domains[o]]_vars

\* VS2 was bound b.org, a.com and a.com again, VS1 a.com
C6_Witness ==
    /\ DOMAIN domains = {VS1, VS2}
    /\ domains[VS1] = DomA
    /\ domains[VS2] = DomB \o <<"\n">> \o DomA \o <<"\n">> \o DomA

\* what each directive of Lines writes: the dictionary, the key, the value
Writes ==
    [l \in {ln_server1, ln_server2, ln_server1_again, ln_bind_sg,
            ln_gslb_service, ln_bind_lb, ln_bind_lb_again, ln_gslb_bind,
            ln_lb_vserver, ln_lb_vserver_again} |->
        CASE l = ln_server1          -> <<"servers", IP1, <<S1, c_web>> >>
          [] l = ln_server2          -> <<"servers", IP2, <<S2, <<>> >> >>
          [] l = ln_server1_again    -> <<"servers", IP1, <<S2, <<>> >> >>
          [] l = ln_bind_sg          -> <<"srvs", S1, <<SG1, s_LB, port_80, c_c1>> >>
          [] l = ln_gslb_service     -> <<"srvs", S1, <<GS1, t_HTTP, port_8080, c_g1>> >>
          [] l = ln_bind_lb          -> <<"vServers", SG1, VS1>>
          [] l = ln_bind_lb_again    -> <<"vServers", SG1, VS2>>
          [] l = ln_gslb_bind        -> <<"vServers", GS1, VS2>>
          [] l = ln_lb_vserver       -> <<"VIPs", VS1, <<VIP1, t_HTTP, port_80, c_v1>> >>
          [] l = ln_lb_vserver_again -> <<"VIPs", VS1, <<VIP1b, t_SSL, port_443, <<>> >> >>]

\* reading l takes dictionary `name` from d to e: the key l writes holds the
\* value l writes, the other keys hold what they held
LastWriterWins(name, d, e, l) ==
    IF l \in DOMAIN Writes /\ Writes[l][1] = name
    THEN /\ DOMAIN e = DOMAIN d \cup {Writes[l][2]}
         /\ e[Writes[l][2]] = Writes[l][3]
         /\ \A k \in DOMAIN d \ {Writes[l][2]} : e[k] = d[k]
    ELSE e = d

\* C7: in servers, srvs, vServers and VIPs every line that writes a key
\* leaves under it the value of that line, whatever was there, and no other
\* line touches the key: the last writer wins.
C7_LastWriterWins ==
    [][ReadStep =>
          /\ LastWriterWins("servers", servers, servers', line')
          /\ LastWriterWins("srvs", srvs, srvs', line')
          /\ LastWriterWins("vServers", vServers, vServers', line')
          /\ LastWriterWins("VIPs", VIPs, VIPs', line')]_vars

\* SG1 was bound to another vserver, and `bind lb vserver VS2 SG1` rebound it
C7_Witness ==
    /\ line = ln_bind_lb_again
    /\ replaced = <<"vServers", SG1>>
    /\ vServers[SG1] = VS2

\* the six prefixes and the parser of each
ParserOf ==
    [p \in {p_add_server, p_bind_servicegroup, p_bind_lb_vserver,
            p_add_lb_vserver, p_add_gslb_service, p_bind_gslb_vserver} |->
        CASE p = p_add_server        -> "server_parse"
          [] p = p_bind_servicegroup -> "bind_servicegroup_parse"
          [] p = p_bind_lb_vserver   -> "bind_lb_parse"
          [] p = p_add_lb_vserver    -> "lb_vserver_parse"
          [] p = p_add_gslb_service  -> "gslb_parse"
          [] p = p_bind_gslb_vserver -> "gslb_vserver_parse"]

\* the prefixes the lowercased line l starts with
PrefixesOf(l) == {p \in DOMAIN ParserOf : startswith(scanned[l].lower, p)}

\* C10: a line that starts with none of the six prefixes calls no parser,
\* raises nothing and leaves the five dictionaries as they were; a line that
\* starts with one starts with one only, and calls the parser of that one.
C10_ClassifierDispatch ==
    [][ReadStep =>
          IF PrefixesOf(line') = {}
          THEN called' = "" /\ pc' = "lines" /\ UNCHANGED dicts
          ELSE /\ Cardinality(PrefixesOf(line')) = 1
               /\ \A p \in PrefixesOf(line') : called' = ParserOf[p]]_vars

\* a comment-only line was read with a server known, and nothing was called
C10_Witness ==
    /\ line = ln_hash
    /\ called = ""
    /\ pc = "lines"
    /\ IP1 \in DOMAIN servers

====
